---- MODULE Spec2Model ----
(***************************************************************************)
(* A model of flight_deals_bot.py: the offer selector, the poll cycle      *)
(* (poll_and_notify), the persisted history and update cursor, and the     *)
(* Telegram command listener (tg_updates_loop / handle_update), with       *)
(* process crashes and restarts.                                           *)
(***************************************************************************)
EXTENDS Integers, Sequences, FiniteSets, TLC

(***************************************************************************)
(* Bounds of the model.                                                    *)
(***************************************************************************)
\* updates the chat channel ever makes available
MaxUpdates == 2
\* records the History Store may hold
MaxHistory == 1
\* crashes and store faults in one behaviour
MaxFaults == 1
\* offers in a provider response of the running system
MaxBatch == 2
\* offers in a batch handed to the selector on its own
MaxSelBatch == 3
\* records the History Store may hold when the three threads run together
MaxJobRows == 2
\* records of a History Store handed to a query on its own
MaxRows == 3
\* updates waiting in the chat channel when the listener starts
MaxBacklog == 3
\* hours the clock advances while the summary job is observed
MaxClockSteps == 2

\* Python's None where an integer is expected (an offset, an hour, a bound)
None == -1

(***************************************************************************)
(* Values of the provider's JSON.  A timestamp ("at") is a record: tag     *)
(* "absent" (the key is missing: KeyError), "none" (None or ""), "bad" (a   *)
(* value fromisoformat rejects) or "iso" (an ISO datetime, with its hour). *)
(***************************************************************************)
AbsentTs == [tag |-> "absent", hour |-> 0]
NoneTs   == [tag |-> "none", hour |-> 0]
BadTs    == [tag |-> "bad", hour |-> 0]
Iso(h)   == [tag |-> "iso", hour |-> h]

\* a price field: tag "none" (missing, None or ""), "bad" (float() raises)
\* or "num" (a numeric string, with its value)
NoPrice  == [tag |-> "none", val |-> 0]
BadPrice == [tag |-> "bad", val |-> 0]
Num(v)   == [tag |-> "num", val |-> v]

Seg(dep, arr) == [dep |-> dep, arr |-> arr]
Leg(dep, arr) == [segments |-> <<Seg(dep, arr)>>]
NoSegments    == [segments |-> <<>>]
Offer(its, gt, tot) == [itineraries |-> its, grandTotal |-> gt, total |-> tot]

VARIABLES
    \* configuration, read once from the environment
    ADULTS, ALERT_PER_PERSON,
    DEP_WINDOW_FROM, DEP_WINDOW_TO, RET_WINDOW_FROM, RET_WINDOW_TO,
    TELEGRAM_CHAT_ID,
    \* the UTC offset of TIMEZONE, in hours
    TZ_OFFSET,
    \* the number of records after which the provider is taken to have no
    \* further offer (a bound of the model, fixed by each specification)
    cap,
    \* the selector on its own: its input, its result, whether it ran
    \* and the filter's verdict on each offer of the input
    sel_data, sel_best, sel_done, sel_match,
    \* top_n_history on its own: its argument, its result, whether it ran
    top_n, top_rows, top_done,
    \* the clock (hours of UTC since an epoch) and the steps it has taken
    now, ticks,
    \* the daily summary job
    sum,
    \* durable state: the history table and the cursor file
    history, offsetFile,
    \* the chat channel: the updates not yet confirmed, the next identifier
    pending, nextId,
    \* the listener thread: its position, its offset, the rest of its batch,
    \* the outcome of its current iteration, the reply of the handle_update
    \* call in progress
    lpc, offset, batch, lres, reply,
    \* the poll cycles: "sched" (startup run and interval timer) and "cmd"
    \* (the immediate-check command, inside the listener thread)
    cyc,
    \* whether the main thread is still in its initial poll_and_notify call
    initial,
    \* history variables: calls of handle_update per identifier, identifiers
    \* whose call returned, the batch as fetched, the identifiers handled
    \* from it, faults so far, what the last crash cut (until the listener
    \* has started again)
    handled, returned, batch0, drained, faults, lost,
    \* history variables: add_history calls that committed, the greatest
    \* value save_offset has written
    commits, maxWritten

cfgvars == <<ADULTS, ALERT_PER_PERSON, DEP_WINDOW_FROM, DEP_WINDOW_TO,
             RET_WINDOW_FROM, RET_WINDOW_TO, TELEGRAM_CHAT_ID, TZ_OFFSET, cap>>
selvars == <<sel_data, sel_best, sel_done, sel_match, top_n, top_rows, top_done>>
jobvars == <<now, ticks, sum>>
auditvars == <<commits, maxWritten>>
storevars == <<history, offsetFile>>
chanvars == <<pending, nextId>>
lvars == <<lpc, offset, batch, lres, reply>>
ghostvars == <<handled, returned, batch0, drained, faults, lost>>
cycvars == <<cyc, initial>>
vars == <<cfgvars, selvars, storevars, chanvars, lvars, cycvars, ghostvars,
          jobvars, auditvars>>

(***************************************************************************)
(* _parse_hour: the hour of an ISO datetime, None for a falsy or           *)
(* unparseable value.                                                      *)
(***************************************************************************)
_parse_hour(iso_ts) ==
    IF iso_ts.tag \in {"none", "absent"} THEN None
    ELSE IF iso_ts.tag = "iso" THEN iso_ts.hour
    ELSE None

(***************************************************************************)
(* extract_times_from_offer: <<out_dep, out_arr, in_dep, in_arr>>.  One    *)
(* try block covers both legs: a KeyError leaves the variables assigned    *)
(* before it and None in the rest.                                         *)
(***************************************************************************)
extract_inbound(its, out_dep, out_arr) ==
    IF Len(its) >= 2 /\ its[2].segments # <<>>
    THEN LET s1 == its[2].segments[1]
         IN  IF s1.dep.tag = "absent" THEN <<out_dep, out_arr, NoneTs, NoneTs>>
             ELSE IF s1.arr.tag = "absent" THEN <<out_dep, out_arr, s1.dep, NoneTs>>
             ELSE <<out_dep, out_arr, s1.dep, s1.arr>>
    ELSE <<out_dep, out_arr, NoneTs, NoneTs>>

extract_times_from_offer(offer) ==
    LET its == offer.itineraries
    IN  IF Len(its) >= 1 /\ its[1].segments # <<>>
        THEN LET s0 == its[1].segments[1]
             IN  IF s0.dep.tag = "absent" THEN <<NoneTs, NoneTs, NoneTs, NoneTs>>
                 ELSE IF s0.arr.tag = "absent" THEN <<s0.dep, NoneTs, NoneTs, NoneTs>>
                 ELSE extract_inbound(its, s0.dep, s0.arr)
        ELSE extract_inbound(its, NoneTs, NoneTs)

(***************************************************************************)
(* offer_matches_time_windows, over the configured windows.                *)
(***************************************************************************)
offer_matches_time_windows(offer) ==
    LET t      == extract_times_from_offer(offer)
        out_hr == _parse_hour(t[1])
        in_hr  == _parse_hour(t[3])
    IN  IF /\ DEP_WINDOW_FROM # None /\ DEP_WINDOW_TO # None /\ out_hr # None
           /\ ~(DEP_WINDOW_FROM <= out_hr /\ out_hr <= DEP_WINDOW_TO)
        THEN FALSE
        ELSE IF /\ RET_WINDOW_FROM # None /\ RET_WINDOW_TO # None /\ in_hr # None
                /\ ~(RET_WINDOW_FROM <= in_hr /\ in_hr <= RET_WINDOW_TO)
        THEN FALSE
        ELSE TRUE

(***************************************************************************)
(* best_offer_from_search.  price_field is `grandTotal or total`; the loop *)
(* keeps <<price, offer>> of the first offer strictly below every earlier  *)
(* one; <<>> is None.  A response of None (a failed fetch) is NoData.      *)
(***************************************************************************)
NoData == [ok |-> FALSE, data |-> <<>>]
Data(offers) == [ok |-> TRUE, data |-> offers]

price_field(o) == IF o.grandTotal.tag = "none" THEN o.total ELSE o.grandTotal

\* a plausible slip: <= lets a later offer of equal price replace the best
better_le(price, best) == best = <<>> \/ price <= best[1]
\* `best is None or price < best[0]`
better(price, best) == best = <<>> \/ price < best[1]

RECURSIVE best_loop(_, _)
best_loop(offers, best) ==
    IF offers = <<>> THEN best
    ELSE LET o == Head(offers)
             p == price_field(o)
         IN  IF ~offer_matches_time_windows(o) THEN best_loop(Tail(offers), best)
             ELSE IF p.tag # "num" THEN best_loop(Tail(offers), best)
             ELSE IF better(p.val, best) THEN best_loop(Tail(offers), <<p.val, o>>)
             ELSE best_loop(Tail(offers), best)

best_offer_from_search(data) ==
    best_loop(IF data.ok THEN data.data ELSE <<>>, <<>>)

(***************************************************************************)
(* Time.  The clock counts hours of UTC.  datetime.now(TZ) is the local    *)
(* wall clock with its UTC offset, and isoformat() writes both, so a       *)
(* timestamp is the record of the two.                                     *)
(***************************************************************************)
datetime_now(clock) == [local |-> clock + TZ_OFFSET, off |-> TZ_OFFSET]
\* .date(): the calendar date of the wall clock, whatever the offset
date_of(dt) == dt.local \div 24
\* SQLite's date() of a text with a [+-]HH:MM suffix: the suffix is
\* subtracted and the date is that of the UTC instant
sqlite_date(ts) == (ts.local - ts.off) \div 24

(***************************************************************************)
(* The History Store.  A row is the timestamp and the price of the          *)
(* observation (the other columns are derived from the offer and the       *)
(* configuration).                                                         *)
(***************************************************************************)
Row(price, ts) == [price |-> price, timestamp |-> ts]

\* a plausible slip: the write replaces the table instead of adding to it
add_history_replace(h, price, clock) == <<Row(price, datetime_now(clock))>>
\* a plausible slip: the INSERT is never committed
add_history_uncommitted(h, price, clock) == h
\* add_history: INSERT and commit, one transaction
add_history(h, price, clock) == Append(h, Row(price, datetime_now(clock)))

\* a plausible slip: a later row goes before the earlier rows of its price
RECURSIVE insert_by_price_le(_, _, _)
insert_by_price_le(h, sorted, i) ==
    IF sorted = <<>> THEN <<i>>
    ELSE IF h[i].price <= h[Head(sorted)].price THEN <<i>> \o sorted
    ELSE <<Head(sorted)>> \o insert_by_price_le(h, Tail(sorted), i)

\* the row positions of h in ascending price order, insertion order among
\* equal prices (ORDER BY price ASC with a LIMIT: SQLite sorts the rowid
\* scan in an index keyed by price, then by the order of arrival)
RECURSIVE insert_by_price(_, _, _)
insert_by_price(h, sorted, i) ==
    IF sorted = <<>> THEN <<i>>
    ELSE IF h[i].price < h[Head(sorted)].price THEN <<i>> \o sorted
    ELSE <<Head(sorted)>> \o insert_by_price(h, Tail(sorted), i)

RECURSIVE order_by_price(_, _)
order_by_price(h, k) ==
    IF k = 0 THEN <<>>
    ELSE insert_by_price(h, order_by_price(h, k - 1), k)

\* top_n_history: ORDER BY price ASC LIMIT n
top_n_history(h, n) ==
    LET ord == order_by_price(h, Len(h))
        m   == IF Len(ord) < n THEN Len(ord) ELSE n
    IN  [j \in 1..m |-> h[ord[j]]]

\* the LIMIT of the /history command
HistoryLimit == 10

\* best_price_today: WHERE date(timestamp) = today ORDER BY price ASC
\* LIMIT 1; <<>> is None, <<row>> a row
best_price_today(h, clock) ==
    LET today == date_of(datetime_now(clock))
        rows  == top_n_history(
                     SelectSeq(h, LAMBDA r : sqlite_date(r.timestamp) = today), 1)
    IN  IF rows = <<>> THEN <<>> ELSE <<rows[1]>>

(***************************************************************************)
(* The cursor file tg_update_offset.txt: absent, or its text (<<>> when    *)
(* empty, <<n>> for str(n)).                                               *)
(***************************************************************************)
NoFile == [exists |-> FALSE, text |-> <<>>]

\* load_offset: None when the file is absent or int() raises
load_offset(f) ==
    IF ~f.exists THEN None
    ELSE IF f.text = <<>> THEN None
    ELSE f.text[1]

\* open(UPDATE_OFFSET_FILE, "w"): the file exists and is empty
open_w(f) == [exists |-> TRUE, text |-> <<>>]
\* f.write(str(offset)) and close
write_offset(f, n) == [exists |-> TRUE, text |-> <<n>>]

(***************************************************************************)
(* The chat channel.  getUpdates answers with the unconfirmed updates of   *)
(* identifier >= the offset sent, in identifier order, and confirms (drops)*)
(* those below it; TELEGRAM_GETUPDATES_URL sends no offset when it is      *)
(* falsy (None or 0).                                                      *)
(***************************************************************************)
Me == "me"
Other == "other"
\* a text is modelled by the command it starts with
Texts == {"/start", "/history", "/help", "hi"}
UpdateKinds ==
    {<<Me, t>> : t \in Texts} \cup {<<Other, "/start">>}
Update(id, k) == [update_id |-> id, chat_id |-> k[1], text |-> k[2]]

offset_sent(off) == off # None /\ off # 0

getUpdates(q, off) ==
    IF offset_sent(off)
    THEN SelectSeq(q, LAMBDA u : u.update_id >= off)
    ELSE q

Ids(q) == [j \in 1..Len(q) |-> q[j].update_id]

\* a plausible slip: the cursor is the identifier handled, not the next one
next_offset_same(u) == u.update_id
\* a plausible slip: the cursor steps over the next identifier
next_offset_skip(u) == u.update_id + 2
\* `offset = u["update_id"] + 1`
next_offset(u) == u.update_id + 1

(***************************************************************************)
(* A poll cycle (poll_and_notify).  pc: "idle", "token" (about to ask for  *)
(* the credential), "search", "add" (about to add_history), "send" (about  *)
(* to send the price message), "alert" (about to evaluate the alert),      *)
(* "ret" (returning).  out: how it ended.  obs: the row it inserted, 0     *)
(* before that.  msgs: the messages it sent, with the dispatcher's result. *)
(***************************************************************************)
Cycles == {"sched", "cmd"}
IdleCycle == [pc |-> "idle", out |-> "", price |-> 0, obs |-> 0, msgs |-> <<>>]
StartCycle == [IdleCycle EXCEPT !.pc = "token"]
Msg(kind, ok) == [kind |-> kind, ok |-> ok]
\* what send_telegram_message may return: False at once when no recipient
\* is configured, else True or False as the POST goes
SendResults == IF TELEGRAM_CHAT_ID = "" THEN {FALSE} ELSE BOOLEAN
Kinds(msgs) == {msgs[j].kind : j \in 1..Len(msgs)}

\* a plausible slip: strict comparison, the boundary does not alert
alert_due_strict(price) ==
    IF ADULTS # 0 THEN price < ALERT_PER_PERSON * ADULTS
    ELSE price < ALERT_PER_PERSON
\* `per_person = price / ADULTS if ADULTS else price` and
\* `per_person <= ALERT_PER_PERSON`, ADULTS >= 0 (the quotient is exact
\* in the rationals: price / ADULTS <= t iff price <= t * ADULTS)
alert_due(price) ==
    IF ADULTS # 0 THEN price <= ALERT_PER_PERSON * ADULTS
    ELSE price <= ALERT_PER_PERSON

\* what a cycle that committed its observation sends when nothing stops it
Expected(price) == IF alert_due(price) THEN {"price", "alert"} ELSE {"price"}
NoLoss == [c \in Cycles |-> [obs |-> 0, price |-> 0, unsent |-> {}]]

(***************************************************************************)
(* The daily summary job (daily_summary_job).  pc: "idle", "send" (it has  *)
(* read its row and is about to call the dispatcher), "ret" (returning).   *)
(* row: what best_price_today returned.  msgs: the messages it sent.       *)
(***************************************************************************)
IdleSum == [pc |-> "idle", row |-> <<>>, msgs |-> <<>>]
SumMsg(kind, price) == [kind |-> kind, price |-> price]
\* "Daily lowest price: ..." for a row, "No prices recorded today." for None
summary_text(row) ==
    IF row # <<>> THEN SumMsg("lowest", row[1].price) ELSE SumMsg("noprices", 0)

(***************************************************************************)
(* The running system: configuration and the state after main() has       *)
(* created the table, started the scheduler and the listener thread, and   *)
(* is about to make its initial poll_and_notify call.                      *)
(***************************************************************************)
O400 == Offer(<<Leg(Iso(9), Iso(12)), Leg(Iso(18), Iso(21))>>, Num(400), Num(400))
O420 == Offer(<<Leg(Iso(9), Iso(12)), Leg(Iso(18), Iso(21))>>, NoPrice, Num(420))
O150 == Offer(<<Leg(Iso(23), Iso(2)), Leg(Iso(18), Iso(21))>>, Num(150), Num(150))
\* an offer the provider prices at zero
O0   == Offer(<<Leg(Iso(9), Iso(12)), Leg(Iso(18), Iso(21))>>, Num(0), Num(0))
MainOffers == {O400, O420, O150, O0}

SeqsUpTo(S, n) == UNION {[1..k -> S] : k \in 0..n}
Responses == {NoData} \cup {Data(b) : b \in SeqsUpTo(MainOffers, MaxBatch)}

\* the configuration of Init
InitConfig ==
    /\ ADULTS = 2
    /\ ALERT_PER_PERSON = 200
    /\ DEP_WINDOW_FROM = 6
    /\ DEP_WINDOW_TO = 12
    /\ RET_WINDOW_FROM = None
    /\ RET_WINDOW_TO = None

InitSel ==
    /\ sel_data = NoData
    /\ sel_best = <<>>
    /\ sel_done = FALSE
    /\ sel_match = <<>>

InitQuery ==
    /\ top_n = 0
    /\ top_rows = <<>>
    /\ top_done = FALSE

\* a clock reading in the afternoon of the first day after the epoch
Noon == 36

\* a channel that has not yet received a message
InitChannel ==
    /\ pending = <<>>
    /\ nextId = 1
    /\ handled = [i \in 1..MaxUpdates |-> 0]

\* the threads of a process that has just started, over an absent cursor
\* file
InitProcess ==
    /\ ticks = 0
    /\ sum = IdleSum
    /\ maxWritten = None
    /\ offsetFile = NoFile
    /\ lpc = "load"
    /\ offset = None
    /\ batch = <<>>
    /\ lres = "none"
    /\ reply = ""
    /\ cyc = [c \in Cycles |-> IF c = "sched" THEN StartCycle ELSE IdleCycle]
    /\ initial = TRUE
    /\ returned = {}
    /\ batch0 = <<>>
    /\ drained = <<>>
    /\ faults = 0
    /\ lost = NoLoss

InitThreads ==
    /\ InitChannel
    /\ InitProcess

InitRun ==
    /\ history = <<>>
    /\ commits = 0
    /\ InitThreads

Init ==
    /\ ADULTS = 2
    /\ ALERT_PER_PERSON = 200
    /\ DEP_WINDOW_FROM = 6
    /\ DEP_WINDOW_TO = 12
    /\ RET_WINDOW_FROM = None
    /\ RET_WINDOW_TO = None
    /\ TELEGRAM_CHAT_ID = Me
    /\ TZ_OFFSET = 3
    /\ cap = MaxHistory
    /\ now = Noon
    /\ InitSel
    /\ InitQuery
    /\ InitRun

(***************************************************************************)
(* The chat channel receives a message.                                    *)
(***************************************************************************)
Arrive ==
    /\ nextId <= MaxUpdates
    /\ \E k \in UpdateKinds : pending' = Append(pending, Update(nextId, k))
    /\ nextId' = nextId + 1
    /\ UNCHANGED <<cfgvars, jobvars, auditvars, selvars, storevars, lvars, cycvars, ghostvars>>

(***************************************************************************)
(* tg_updates_loop.  lpc: "load" (before load_offset), "poll" (before the  *)
(* GET), "drain" (at the head of the for loop), "cycle" (inside            *)
(* handle_update, in poll_and_notify), "handled" (handle_update returned), *)
(* "write" (save_offset has opened the file), "sleep".                     *)
(***************************************************************************)
L_Load ==
    /\ lpc = "load"
    /\ offset' = load_offset(offsetFile)
    /\ lpc' = "poll"
    /\ lost' = NoLoss
    /\ UNCHANGED <<cfgvars, jobvars, auditvars, selvars, storevars, chanvars, batch, lres, reply,
                   cycvars, handled, returned, batch0, drained,
                   faults>>

\* the GET answers 200 with the batch
L_PollOk ==
    /\ lpc = "poll"
    /\ LET r == getUpdates(pending, offset)
       IN  /\ pending' = r
           /\ batch' = r
           /\ batch0' = r
    /\ drained' = <<>>
    /\ lres' = "ok"
    /\ lpc' = "drain"
    /\ UNCHANGED <<cfgvars, jobvars, auditvars, selvars, storevars, nextId, offset, reply, cycvars,
                   handled, returned, faults, lost>>

\* a plausible slip: a failed fetch reloads the offset as if it were unset
L_PollFail_reset ==
    /\ lpc = "poll"
    /\ \E e \in {"non200", "fetch_exc"} : lres' = e
    /\ lpc' = "sleep"
    /\ offset' = None
    /\ UNCHANGED <<cfgvars, jobvars, auditvars, selvars, storevars, chanvars, batch, reply,
                   cycvars, ghostvars>>

\* a plausible slip: an exception of the GET is not caught and ends the
\* listener thread
L_PollFail_halt ==
    /\ lpc = "poll"
    /\ \E e \in {"non200", "fetch_exc"} :
          /\ lres' = e
          /\ lpc' = IF e = "fetch_exc" THEN "dead" ELSE "sleep"
    /\ UNCHANGED <<cfgvars, jobvars, auditvars, selvars, storevars, chanvars,
                   offset, batch, reply, cycvars, ghostvars>>

\* the GET raises (caught by the loop's except) or answers a status other
\* than 200 (the body of the if is skipped); either way the loop sleeps
L_PollFail ==
    /\ lpc = "poll"
    /\ \E e \in {"non200", "fetch_exc"} : lres' = e
    /\ lpc' = "sleep"
    /\ UNCHANGED <<cfgvars, jobvars, auditvars, selvars, storevars, chanvars, offset, batch, reply,
                   cycvars, ghostvars>>

\* time.sleep returns: the next iteration of while True
L_Wake ==
    /\ lpc = "sleep"
    /\ lpc' = "poll"
    /\ lres' = "none"
    /\ UNCHANGED <<cfgvars, jobvars, auditvars, selvars, storevars, chanvars, offset, batch, reply,
                   cycvars, ghostvars>>

\* the for loop is exhausted
L_DrainDone ==
    /\ lpc = "drain"
    /\ batch = <<>>
    /\ lpc' = "sleep"
    /\ batch0' = <<>>
    /\ drained' = <<>>
    /\ UNCHANGED <<cfgvars, jobvars, auditvars, selvars, storevars, chanvars, offset, batch, lres,
                   reply, cycvars, handled, returned, faults, lost>>

\* a plausible slip: the immediate-check cycle is started in the background
\* and handle_update returns at once
L_Handle_detached ==
    /\ lpc = "drain"
    /\ batch # <<>>
    /\ LET u == Head(batch)
       IN  /\ handled' = [handled EXCEPT ![u.update_id] = @ + 1]
           /\ drained' = Append(drained, u.update_id)
           /\ returned' = returned \cup {u.update_id}
           /\ lpc' = "handled"
           /\ IF TELEGRAM_CHAT_ID # "" /\ u.chat_id # TELEGRAM_CHAT_ID
              THEN /\ reply' = ""
                   /\ cyc' = cyc
              ELSE IF u.text = "/start"
              THEN /\ reply' = "searching"
                   /\ cyc' = [cyc EXCEPT !["cmd"] = StartCycle]
              ELSE /\ reply' =
                        IF u.text = "/history"
                        THEN IF top_n_history(history, HistoryLimit) = <<>>
                             THEN "nohistory" ELSE "history"
                        ELSE IF u.text = "/help" THEN "help"
                        ELSE "fallback"
                   /\ cyc' = cyc
    /\ UNCHANGED <<cfgvars, jobvars, auditvars, selvars, storevars, chanvars,
                   offset, batch, lres, initial, batch0, faults, lost>>

\* handle_update(u), up to its return or to its call of poll_and_notify
L_Handle ==
    /\ lpc = "drain"
    /\ batch # <<>>
    /\ LET u == Head(batch)
       IN  /\ handled' = [handled EXCEPT ![u.update_id] = @ + 1]
           /\ drained' = Append(drained, u.update_id)
           /\ IF TELEGRAM_CHAT_ID # "" /\ u.chat_id # TELEGRAM_CHAT_ID
              THEN /\ reply' = ""
                   /\ lpc' = "handled"
                   /\ returned' = returned \cup {u.update_id}
                   /\ cyc' = cyc
              ELSE IF u.text = "/start"
              THEN /\ reply' = "searching"
                   /\ lpc' = "cycle"
                   /\ returned' = returned
                   /\ cyc' = [cyc EXCEPT !["cmd"] = StartCycle]
              ELSE /\ reply' =
                        IF u.text = "/history"
                        THEN IF top_n_history(history, HistoryLimit) = <<>>
                             THEN "nohistory" ELSE "history"
                        ELSE IF u.text = "/help" THEN "help"
                        ELSE "fallback"
                   /\ lpc' = "handled"
                   /\ returned' = returned \cup {u.update_id}
                   /\ cyc' = cyc
    /\ UNCHANGED <<cfgvars, jobvars, auditvars, selvars, storevars, chanvars, offset, batch, lres,
                   initial, batch0, faults, lost>>

\* `offset = u["update_id"] + 1` and save_offset's open(..., "w")
L_SaveOpen ==
    /\ lpc = "handled"
    /\ offset' = next_offset(Head(batch))
    /\ offsetFile' = open_w(offsetFile)
    /\ lpc' = "write"
    /\ UNCHANGED <<cfgvars, jobvars, auditvars, selvars, history, chanvars, batch, lres, reply, cycvars,
                   ghostvars>>

\* save_offset's write and close; the loop moves to the next update
L_SaveWrite ==
    /\ lpc = "write"
    /\ offsetFile' = write_offset(offsetFile, offset)
    /\ batch' = Tail(batch)
    /\ reply' = ""
    /\ lpc' = "drain"
    /\ maxWritten' = IF offset > maxWritten THEN offset ELSE maxWritten
    /\ UNCHANGED <<cfgvars, jobvars, commits, selvars, history, chanvars, offset,
                   lres, cycvars, ghostvars>>

(***************************************************************************)
(* poll_and_notify, one action per call that leaves the process.           *)
(***************************************************************************)
\* the interval timer fires
C_Tick ==
    /\ cyc["sched"].pc = "idle"
    /\ cyc' = [cyc EXCEPT !["sched"] = StartCycle]
    /\ UNCHANGED <<cfgvars, jobvars, auditvars, selvars, storevars, chanvars, lvars, initial,
                   ghostvars>>

\* a plausible slip: a failed credential request is reported to the chat
C_Token_notify(c) ==
    /\ cyc[c].pc = "token"
    /\ \E token \in BOOLEAN :
          cyc' = IF token
                 THEN [cyc EXCEPT ![c].pc = "search"]
                 ELSE [cyc EXCEPT ![c].pc = "ret", ![c].out = "notoken",
                                  ![c].msgs = Append(@, Msg("error", TRUE))]
    /\ UNCHANGED <<cfgvars, jobvars, auditvars, selvars, storevars, chanvars, lvars, initial,
                   ghostvars>>

\* get_amadeus_token: a token, or None (missing credentials, any error)
C_Token(c) ==
    /\ cyc[c].pc = "token"
    /\ \E token \in BOOLEAN :
          cyc' = IF token
                 THEN [cyc EXCEPT ![c].pc = "search"]
                 ELSE [cyc EXCEPT ![c].pc = "ret", ![c].out = "notoken"]
    /\ UNCHANGED <<cfgvars, jobvars, auditvars, selvars, storevars, chanvars, lvars, initial,
                   ghostvars>>

\* the provider answers only "no qualifying offer" once the store is full
Room == Len(history) + Cardinality({d \in Cycles : cyc[d].pc = "add"}) < cap

\* search_amadeus (None on any error) and best_offer_from_search
C_Search(c) ==
    /\ cyc[c].pc = "search"
    /\ \E data \in Responses :
          LET best == best_offer_from_search(data)
          IN  /\ best # <<>> => Room
              /\ cyc' = IF best = <<>>
                        THEN [cyc EXCEPT ![c].pc = "ret",
                                         ![c].out = IF data.ok THEN "nooffer"
                                                    ELSE "nofetch"]
                        ELSE [cyc EXCEPT ![c].pc = "add", ![c].price = best[1]]
    /\ UNCHANGED <<cfgvars, jobvars, auditvars, selvars, storevars, chanvars, lvars, initial,
                   ghostvars>>

\* add_history commits the observation
C_Add(c) ==
    /\ cyc[c].pc = "add"
    /\ history' = add_history(history, cyc[c].price, now)
    /\ cyc' = [cyc EXCEPT ![c].pc = "send", ![c].obs = Len(history) + 1]
    /\ commits' = commits + 1
    /\ UNCHANGED <<cfgvars, jobvars, maxWritten, selvars, offsetFile, chanvars,
                   lvars, initial, ghostvars>>

\* a plausible slip: the price message goes out before add_history
C_SendPrice_early(c) ==
    /\ cyc[c].pc = "add"
    /\ cyc[c].msgs = <<>>
    /\ \E ok \in BOOLEAN :
          cyc' = [cyc EXCEPT ![c].msgs = Append(@, Msg("price", ok))]
    /\ UNCHANGED <<cfgvars, jobvars, auditvars, selvars, storevars, chanvars, lvars, initial,
                   ghostvars>>

\* send_telegram_message(price message); its result is not looked at
C_SendPrice(c) ==
    /\ cyc[c].pc = "send"
    /\ \E ok \in SendResults :
          cyc' = [cyc EXCEPT ![c].pc = "alert",
                             ![c].msgs = Append(@, Msg("price", ok))]
    /\ UNCHANGED <<cfgvars, jobvars, auditvars, selvars, storevars, chanvars, lvars, initial,
                   ghostvars>>

\* the alert comparison and, when it holds, the alert message
C_Alert(c) ==
    /\ cyc[c].pc = "alert"
    /\ \E ok \in SendResults :
          cyc' = [cyc EXCEPT ![c].pc = "ret", ![c].out = "done",
                             ![c].msgs = IF alert_due(cyc[c].price)
                                         THEN Append(@, Msg("alert", ok))
                                         ELSE @]
    /\ UNCHANGED <<cfgvars, jobvars, auditvars, selvars, storevars, chanvars, lvars, initial,
                   ghostvars>>

\* poll_and_notify returns: to the scheduler or main, or into handle_update,
\* which returns in turn
C_Return(c) ==
    /\ cyc[c].pc = "ret"
    /\ cyc' = [cyc EXCEPT ![c] = IdleCycle]
    /\ IF c = "cmd"
       THEN /\ lpc' = "handled"
            /\ returned' = returned \cup {Head(batch).update_id}
            /\ initial' = initial
       ELSE /\ initial' = FALSE
            /\ UNCHANGED <<lpc, returned>>
    /\ UNCHANGED <<cfgvars, jobvars, auditvars, selvars, storevars, chanvars, offset, batch, lres,
                   reply, handled, batch0, drained, faults, lost>>

(***************************************************************************)
(* daily_summary_job, run by the scheduler's cron trigger.                 *)
(***************************************************************************)
\* a plausible slip: the job prunes the table once it has read it
S_Start_prune ==
    /\ sum.pc = "idle"
    /\ sum' = [pc |-> "send", row |-> best_price_today(history, now), msgs |-> <<>>]
    /\ history' = <<>>
    /\ UNCHANGED <<cfgvars, now, ticks, auditvars, selvars, offsetFile, chanvars,
                   lvars, cycvars, ghostvars>>

\* the trigger fires and best_price_today reads the store
S_Start ==
    /\ sum.pc = "idle"
    /\ sum' = [pc |-> "send", row |-> best_price_today(history, now), msgs |-> <<>>]
    /\ UNCHANGED <<cfgvars, now, ticks, auditvars, selvars, storevars, chanvars,
                   lvars, cycvars, ghostvars>>

\* the one send_telegram_message call of either branch; its result is not
\* looked at
S_Send ==
    /\ sum.pc = "send"
    /\ sum' = [sum EXCEPT !.pc = "ret",
                          !.msgs = Append(@, summary_text(sum.row))]
    /\ UNCHANGED <<cfgvars, now, ticks, auditvars, selvars, storevars, chanvars,
                   lvars, cycvars, ghostvars>>

\* the job returns to the scheduler
S_Return ==
    /\ sum.pc = "ret"
    /\ sum' = IdleSum
    /\ UNCHANGED <<cfgvars, now, ticks, auditvars, selvars, storevars, chanvars,
                   lvars, cycvars, ghostvars>>

\* an hour passes
Tick ==
    /\ ticks < MaxClockSteps
    /\ now' = now + 1
    /\ ticks' = ticks + 1
    /\ UNCHANGED <<cfgvars, sum, auditvars, selvars, storevars, chanvars,
                   lvars, cycvars, ghostvars>>

(***************************************************************************)
(* The process dies and is started again: the table and the cursor file    *)
(* survive, every thread starts over.  lost records, for each cycle cut    *)
(* after its add_history, the row and the messages it had still to send.   *)
(***************************************************************************)
Cut(c) ==
    IF cyc[c].obs # 0 /\ cyc[c].pc \in {"send", "alert"}
    THEN [obs |-> cyc[c].obs, price |-> cyc[c].price,
          unsent |-> Expected(cyc[c].price) \ Kinds(cyc[c].msgs)]
    ELSE [obs |-> 0, price |-> 0, unsent |-> {}]

Restart ==
    /\ lpc' = "load"
    /\ offset' = None
    /\ batch' = <<>>
    /\ lres' = "none"
    /\ reply' = ""
    /\ cyc' = [c \in Cycles |-> IF c = "sched" THEN StartCycle ELSE IdleCycle]
    /\ initial' = TRUE
    /\ batch0' = <<>>
    /\ drained' = <<>>
    /\ lost' = [c \in Cycles |-> Cut(c)]
    /\ faults' = faults + 1
    /\ sum' = IdleSum
    /\ UNCHANGED <<cfgvars, now, ticks, auditvars, selvars, storevars, chanvars,
                   handled, returned>>

Crash ==
    /\ faults < MaxFaults
    /\ Restart

\* add_history raises (the store cannot be written).  In the listener the
\* loop's except catches it and the loop sleeps; in a scheduled job the
\* scheduler logs it; in main's initial call it ends the process.
C_AddFault(c) ==
    /\ cyc[c].pc = "add"
    /\ faults < MaxFaults
    /\ IF c = "sched" /\ initial
       THEN Restart
       ELSE /\ cyc' = [cyc EXCEPT ![c] = IdleCycle]
            /\ faults' = faults + 1
            /\ IF c = "cmd"
               THEN /\ lpc' = "sleep"
                    /\ lres' = "handler_exc"
                    /\ reply' = ""
                    /\ batch' = <<>>
                    /\ batch0' = <<>>
                    /\ drained' = <<>>
               ELSE UNCHANGED <<lpc, lres, reply, batch, batch0, drained>>
            /\ UNCHANGED <<cfgvars, jobvars, auditvars, selvars, storevars, chanvars, offset,
                           initial, handled, returned, lost>>

Next ==
    \/ Arrive
    \/ L_Load
    \/ L_PollOk
    \/ L_PollFail
    \/ L_Wake
    \/ L_DrainDone
    \/ L_Handle
    \/ L_SaveOpen
    \/ L_SaveWrite
    \/ C_Tick
    \/ \E c \in Cycles : C_Token(c)
    \/ \E c \in Cycles : C_Search(c)
    \/ \E c \in Cycles : C_Add(c)
    \/ \E c \in Cycles : C_AddFault(c)
    \/ \E c \in Cycles : C_SendPrice(c)
    \/ \E c \in Cycles : C_Alert(c)
    \/ \E c \in Cycles : C_Return(c)
    \/ Crash

Spec == Init /\ [][Next]_vars

(***************************************************************************)
(* The listener thread under fair scheduling: each of its steps, and each  *)
(* step of the poll cycle it runs inside handle_update, is taken if it     *)
(* stays possible (time.sleep returns, a request returns or raises in      *)
(* bounded time: every call has a timeout), and the GET succeeds           *)
(* infinitely often if it is attempted infinitely often.  Crashes and      *)
(* store faults are not forced and stop after MaxFaults.  The main thread  *)
(* and the scheduler's threads, which nothing obliges to run, stay where   *)
(* they are.                                                               *)
(***************************************************************************)
NextListener ==
    \/ Arrive
    \/ L_Load
    \/ L_PollOk
    \/ L_PollFail
    \/ L_Wake
    \/ L_DrainDone
    \/ L_Handle
    \/ L_SaveOpen
    \/ L_SaveWrite
    \/ C_Token("cmd")
    \/ C_Search("cmd")
    \/ C_Add("cmd")
    \/ C_AddFault("cmd")
    \/ C_SendPrice("cmd")
    \/ C_Alert("cmd")
    \/ C_Return("cmd")
    \/ Crash

ListenerFairness ==
    /\ WF_vars(L_Load)
    /\ SF_vars(L_PollOk)
    /\ WF_vars(L_Wake)
    /\ WF_vars(L_DrainDone)
    /\ WF_vars(L_Handle)
    /\ WF_vars(L_SaveOpen)
    /\ WF_vars(L_SaveWrite)
    /\ WF_vars(C_Token("cmd"))
    /\ WF_vars(C_Search("cmd"))
    /\ WF_vars(C_Add("cmd"))
    /\ WF_vars(C_SendPrice("cmd"))
    /\ WF_vars(C_Alert("cmd"))
    /\ WF_vars(C_Return("cmd"))

SpecLive == Init /\ [][NextListener]_vars /\ ListenerFairness

(***************************************************************************)
(* The selector on its own: every window configuration and every batch of  *)
(* the sets below, then one call of best_offer_from_search.                *)
(***************************************************************************)
SelHours == {0, 5, 6, 9, 12, 13, 23}
SelDeps == {AbsentTs, NoneTs, BadTs} \cup {Iso(h) : h \in SelHours}
SelLegs == {NoSegments} \cup {Leg(d, a) : d \in SelDeps, a \in {AbsentTs, Iso(12)}}
\* one offer of every shape of itinerary list
ShapeOffers ==
    {Offer(its, Num(180), Num(180)) :
        its \in {<<>>} \cup {<<l>> : l \in SelLegs}
                     \cup {<<l, m>> : l \in SelLegs, m \in SelLegs}}
\* offers that differ in price, in price field and in departure hours
A180 == Offer(<<Leg(Iso(9), Iso(12)), Leg(Iso(18), Iso(21))>>, Num(180), Num(190))
B180 == Offer(<<Leg(Iso(9), Iso(12)), Leg(Iso(9), Iso(12))>>, NoPrice, Num(180))
C150 == Offer(<<Leg(Iso(23), Iso(2)), Leg(Iso(9), Iso(12))>>, Num(150), Num(150))
D150 == Offer(<<Leg(Iso(9), Iso(12)), Leg(Iso(5), Iso(8))>>, Num(150), Num(150))
E100 == Offer(<<Leg(Iso(9), Iso(12)), Leg(Iso(9), Iso(12))>>, BadPrice, Num(100))
F200 == Offer(<<Leg(Iso(12), Iso(15))>>, Num(200), NoPrice)
G0   == Offer(<<Leg(Iso(6), Iso(9)), Leg(Iso(12), Iso(15))>>, NoPrice, NoPrice)
SelOffers == {A180, B180, C150, D150, E100, F200, G0}
SelData ==
    {NoData} \cup {Data(b) : b \in SeqsUpTo(SelOffers, MaxSelBatch)}
             \cup {Data(<<o>>) : o \in ShapeOffers}

InitSelect ==
    /\ ADULTS = 2
    /\ ALERT_PER_PERSON = 200
    /\ DEP_WINDOW_FROM \in {None, 6}
    /\ DEP_WINDOW_TO \in {None, 12}
    /\ RET_WINDOW_FROM \in {None, 6}
    /\ RET_WINDOW_TO \in {None, 12}
    /\ TELEGRAM_CHAT_ID = Me
    /\ TZ_OFFSET = 3
    /\ cap = MaxHistory
    /\ now = Noon
    /\ sel_data \in SelData
    /\ sel_best = <<>>
    /\ sel_done = FALSE
    /\ sel_match = <<>>
    /\ InitQuery
    /\ InitRun

Select ==
    /\ ~sel_done
    /\ sel_best' = best_offer_from_search(sel_data)
    /\ sel_match' = [j \in 1..Len(sel_data.data) |->
                        offer_matches_time_windows(sel_data.data[j])]
    /\ sel_done' = TRUE
    /\ UNCHANGED <<cfgvars, jobvars, auditvars, sel_data, top_n, top_rows, top_done,
                   storevars, chanvars, lvars, cycvars, ghostvars>>

NextSelect == Select

SpecSelect == InitSelect /\ [][NextSelect]_vars

(***************************************************************************)
(* top_n_history on its own: every store of up to MaxRows records, inserted *)
(* an hour apart, and every limit, then one call.                          *)
(***************************************************************************)
RowPrices == {100, 200, 300}
Limits == {0, 1, 2, HistoryLimit}
\* the store after add_history calls with the prices ps, an hour apart
RECURSIVE StoreOf(_)
StoreOf(ps) ==
    IF ps = <<>> THEN <<>>
    ELSE add_history(StoreOf(SubSeq(ps, 1, Len(ps) - 1)), ps[Len(ps)],
                     Noon + Len(ps))

InitTopN ==
    /\ InitConfig
    /\ TELEGRAM_CHAT_ID = Me
    /\ TZ_OFFSET = 3
    /\ cap = MaxRows
    /\ now = Noon + MaxRows + 1
    /\ InitSel
    /\ top_n \in Limits
    /\ top_rows = <<>>
    /\ top_done = FALSE
    /\ \E ps \in SeqsUpTo(RowPrices, MaxRows) : history = StoreOf(ps)
    /\ commits = Len(history)
    /\ InitThreads

TopN ==
    /\ ~top_done
    /\ top_rows' = top_n_history(history, top_n)
    /\ top_done' = TRUE
    /\ UNCHANGED <<cfgvars, jobvars, auditvars, sel_data, sel_best, sel_done,
                   sel_match, top_n, storevars, chanvars, lvars, cycvars,
                   ghostvars>>

NextTopN == TopN

SpecTopN == InitTopN /\ [][NextTopN]_vars

(***************************************************************************)
(* The daily summary job on its own: every store of up to MaxRows records  *)
(* written at the instants below in the configured timezone, every offset   *)
(* and every later reading of the clock; the job runs while hours pass.    *)
(* With day d the hours 24d .. 24d+23: for offset +3 an observation at 46  *)
(* is of 01:00 local on day 2 and 67 is 22:00 local on day 2; for offset   *)
(* -5 an observation at 50 is of 21:00 local on day 1, one at 74 of 21:00  *)
(* local on day 2, and 75 is 22:00 local on day 2.                         *)
(***************************************************************************)
Offsets == {0, 3, -5}
Instants == {40, 46, 50, 60, 67, 74, 75}
SumPrices == {100, 200}
\* the store after add_history calls with the prices and at the instants of
\* obs, a sequence of <<price, instant>>
RECURSIVE StoreAt(_)
StoreAt(obs) ==
    IF obs = <<>> THEN <<>>
    ELSE add_history(StoreAt(SubSeq(obs, 1, Len(obs) - 1)),
                     obs[Len(obs)][1], obs[Len(obs)][2])
\* the clock does not run backwards between two observations
InOrder(obs) == \A j \in 1..(Len(obs) - 1) : obs[j][2] <= obs[j + 1][2]

InitSummary ==
    /\ InitConfig
    /\ TELEGRAM_CHAT_ID = Me
    /\ TZ_OFFSET \in Offsets
    /\ cap = MaxRows
    /\ now \in Instants
    /\ InitSel
    /\ InitQuery
    /\ \E obs \in SeqsUpTo(SumPrices \X Instants, MaxRows) :
          /\ InOrder(obs)
          /\ \A j \in 1..Len(obs) : obs[j][2] <= now
          /\ history = StoreAt(obs)
    /\ commits = Len(history)
    /\ InitThreads

NextSummary ==
    \/ S_Start
    \/ S_Send
    \/ S_Return
    \/ Tick

SpecSummary == InitSummary /\ [][NextSummary]_vars

(***************************************************************************)
(* The three threads together, without crashes, store faults or failed     *)
(* fetches: the interval timer and the startup run, the daily summary job  *)
(* and the command listener, over a store that may hold MaxJobRows records.*)
(***************************************************************************)
InitJobs ==
    /\ InitConfig
    /\ TELEGRAM_CHAT_ID = Me
    /\ TZ_OFFSET = 3
    /\ cap = MaxJobRows
    /\ now = Noon
    /\ InitSel
    /\ InitQuery
    /\ InitRun

NextJobs ==
    \/ Arrive
    \/ L_Load
    \/ L_PollOk
    \/ L_Wake
    \/ L_DrainDone
    \/ L_Handle
    \/ L_SaveOpen
    \/ L_SaveWrite
    \/ C_Tick
    \/ \E c \in Cycles : C_Token(c)
    \/ \E c \in Cycles : C_Search(c)
    \/ \E c \in Cycles : C_Add(c)
    \/ \E c \in Cycles : C_SendPrice(c)
    \/ \E c \in Cycles : C_Alert(c)
    \/ \E c \in Cycles : C_Return(c)
    \/ S_Start
    \/ S_Send
    \/ S_Return

SpecJobs == InitJobs /\ [][NextJobs]_vars

(***************************************************************************)
(* The listener over a backlog: the channel already holds up to MaxBacklog *)
(* updates when the process starts, no further message arrives, the        *)
(* recipient identifier is configured or left unset, the process may be     *)
(* killed.  The timer does not fire again after the startup run.           *)
(***************************************************************************)
BacklogKinds == {<<Me, "/help">>, <<Other, "/start">>}
\* the channel after the messages of kinds ks have arrived
Backlog(ks) == [j \in 1..Len(ks) |-> Update(j, ks[j])]

InitBacklog ==
    /\ InitConfig
    /\ TELEGRAM_CHAT_ID \in {Me, ""}
    /\ TZ_OFFSET = 3
    /\ cap = MaxHistory
    /\ now = Noon
    /\ InitSel
    /\ InitQuery
    /\ history = <<>>
    /\ commits = 0
    /\ \E ks \in SeqsUpTo(BacklogKinds, MaxBacklog) :
          /\ pending = Backlog(ks)
          /\ nextId = Len(ks) + 1
    /\ handled = [i \in 1..MaxBacklog |-> 0]
    /\ InitProcess

NextBacklog ==
    \/ L_Load
    \/ L_PollOk
    \/ L_Wake
    \/ L_DrainDone
    \/ L_Handle
    \/ L_SaveOpen
    \/ L_SaveWrite
    \/ \E c \in Cycles : C_Token(c)
    \/ \E c \in Cycles : C_Search(c)
    \/ \E c \in Cycles : C_Add(c)
    \/ \E c \in Cycles : C_SendPrice(c)
    \/ \E c \in Cycles : C_Alert(c)
    \/ \E c \in Cycles : C_Return(c)
    \/ Crash

SpecBacklog == InitBacklog /\ [][NextBacklog]_vars

(***************************************************************************)
(* Properties of the command listener (under Spec).                        *)
(***************************************************************************)
\* the persisted cursor, as the next start of the process would read it
Cursor == load_offset(offsetFile)
\* the identifiers the channel has made available
Arrived == 1..(nextId - 1)

\* C1: no update identifier is passed to handle_update more than once,
\* whatever crashes and restarts happen.
C1_HandledAtMostOnce ==
    \A i \in DOMAIN handled : handled[i] <= 1

\* C2: the persisted cursor never runs ahead of handling: every update
\* below it has been passed to handle_update, and the cursor is id + 1 only
\* of an update whose handle_update call has returned.
C2_CursorNeverAhead ==
    Cursor # None =>
        /\ \A i \in Arrived : i < Cursor => handled[i] >= 1
        /\ (Cursor - 1) \in returned

\* C2 witness: a crash cut a batch between handle_update and save_offset;
\* after the restart the first update was handled again and the cursor
\* persisted, and the listener is about to handle the second.
C2_Witness ==
    /\ faults > 0
    /\ handled[1] = 2
    /\ Cursor = 2
    /\ lpc = "drain"
    /\ batch # <<>>
    /\ handled[2] = 0

\* C3: when a non-empty batch has been drained without a failure, its
\* updates were handled once each in identifier order and the persisted
\* cursor is the last identifier + 1.
C3_BatchDrainedInOrder ==
    (lpc = "drain" /\ batch = <<>> /\ batch0 # <<>>) =>
        /\ drained = Ids(batch0)
        /\ \A j \in 1..(Len(batch0) - 1) :
              batch0[j].update_id < batch0[j + 1].update_id
        /\ Cursor = batch0[Len(batch0)].update_id + 1
        /\ offset = Cursor

\* C3 witness: a batch of two updates has just been drained.
C3_Witness ==
    /\ lpc = "drain"
    /\ batch = <<>>
    /\ Len(batch0) = 2
    /\ Cursor = 3

FetchFailed == lres \in {"non200", "fetch_exc"}

\* C4: a failed fetch changes neither the in-memory offset nor the cursor
\* file, handles no update, and the loop polls again with the same offset.
C4_FetchFailureKeepsCursor ==
    [][ /\ (lpc = "poll" /\ lpc' = "sleep") =>
              /\ FetchFailed'
              /\ offset' = offset
              /\ offsetFile' = offsetFile
              /\ handled' = handled
        /\ (lpc = "sleep" /\ FetchFailed /\ lpc' \notin {"sleep", "load"}) =>
              /\ lpc' = "poll"
              /\ offset' = offset
              /\ offsetFile' = offsetFile
              /\ handled' = handled ]_vars

\* C4 witness: a fetch has failed while the listener held an offset.
C4_Witness ==
    /\ lpc = "sleep"
    /\ lres = "fetch_exc"
    /\ offset = 2
    /\ Cursor = 2

(***************************************************************************)
(* Properties of the poll cycle (under Spec).                              *)
(***************************************************************************)
\* C5: a cycle that has sent its price or alert message has its observation
\* in the History Store.
C5_NotifyAfterPersist ==
    \A c \in Cycles :
        cyc[c].msgs # <<>> =>
            /\ cyc[c].obs \in 1..Len(history)
            /\ history[cyc[c].obs].price = cyc[c].price

\* C5 witness: the cycle of an immediate-check command has sent both of its
\* messages.
C5_Witness ==
    /\ Kinds(cyc["cmd"].msgs) = {"price", "alert"}
    /\ cyc["cmd"].pc = "ret"

\* C6, as claimed: a crash after add_history leaves at most one of the
\* cycle's notifications unsent.
C6_AtMostOneLost ==
    \A c \in Cycles : Cardinality(lost[c].unsent) <= 1

\* C6, amended: after such a crash the observation is still in the store,
\* and the notifications never sent are at most the price message and,
\* when the alert was due, the alert message.
C6_ObservationSurvivesCrash ==
    \A c \in Cycles :
        lost[c].obs # 0 =>
            /\ lost[c].obs \in 1..Len(history)
            /\ history[lost[c].obs].price = lost[c].price
            /\ lost[c].unsent \subseteq {"price", "alert"}
            /\ Cardinality(lost[c].unsent)
                  <= (IF lost[c].price <= ALERT_PER_PERSON * ADULTS THEN 2 ELSE 1)

\* C6 witness: a crash cut a cycle between add_history and its price
\* message, with the alert due.
C6_Witness ==
    \E c \in Cycles :
        /\ lost[c].obs # 0
        /\ lost[c].unsent = {"price", "alert"}

Aborted(c) == cyc[c].pc = "ret" /\ cyc[c].out \in {"notoken", "nofetch", "nooffer"}

\* C7: a cycle that ends for want of a credential, of a response or of a
\* qualifying offer has appended nothing and sent nothing, and none of its
\* steps changes the History Store or the cursor file.
C7_AbortedCycleHasNoEffect ==
    /\ [](\A c \in Cycles : Aborted(c) => cyc[c].obs = 0 /\ cyc[c].msgs = <<>>)
    /\ [][\A c \in Cycles :
            (/\ cyc[c].pc \in {"token", "search"}
             /\ cyc'[c].pc \in {"search", "ret"}
             /\ cyc'[c].pc # cyc[c].pc)
                => (history' = history /\ offsetFile' = offsetFile)]_vars

\* C7 witness: a commanded cycle ends without a qualifying offer while the
\* store and the cursor file hold data.
C7_Witness ==
    /\ Aborted("cmd")
    /\ cyc["cmd"].out = "nooffer"
    /\ history # <<>>
    /\ Cursor # None

\* C8: with ADULTS >= 1, a finished cycle sent the alert exactly when
\* price <= threshold * passengers; the alert is sent at most once and only
\* after the price message, whatever the dispatcher returned for it.
C8_AlertIffWithinThreshold ==
    \A c \in Cycles :
        LET m == cyc[c].msgs
        IN  /\ Len(m) <= 2
            /\ \A j \in 1..Len(m) :
                  m[j].kind = "alert" => (j = 2 /\ m[1].kind = "price")
            /\ (ADULTS >= 1 /\ cyc[c].pc = "ret" /\ cyc[c].out = "done") =>
                  (("alert" \in Kinds(m))
                      <=> (cyc[c].price <= ALERT_PER_PERSON * ADULTS))

\* C8 witness: at the boundary (per-person price equal to the threshold) the
\* alert went out although the dispatcher failed to send the price message.
C8_Witness ==
    \E c \in Cycles :
        /\ cyc[c].pc = "ret"
        /\ cyc[c].out = "done"
        /\ cyc[c].price = ALERT_PER_PERSON * ADULTS
        /\ Len(cyc[c].msgs) = 2
        /\ ~cyc[c].msgs[1].ok
        /\ cyc[c].msgs[2].kind = "alert"


(***************************************************************************)
(* Properties of the selector (under SpecSelect).                          *)
(***************************************************************************)
SelBatch == sel_data.data
\* the offers a call considers: accepted by the filter, with a price float() reads
Qualifying == {j \in 1..Len(SelBatch) :
                  sel_match[j] /\ price_field(SelBatch[j]).tag = "num"}
PriceAt(j) == price_field(SelBatch[j]).val
MinPrice == CHOOSE m \in {PriceAt(j) : j \in Qualifying} :
                \A j \in Qualifying : m <= PriceAt(j)
FirstAtMin == CHOOSE j \in Qualifying :
                /\ PriceAt(j) = MinPrice
                /\ \A i \in Qualifying : PriceAt(i) = MinPrice => j <= i

\* C9: best_offer_from_search returns the offer of minimum price among the
\* offers that pass the time-window filter (and carry a readable price), the
\* earliest of them in input order when several share that price, and None
\* when the batch is empty or no offer qualifies.
C9_SelectsFirstMinimum ==
    sel_done =>
        IF Qualifying = {} THEN sel_best = <<>>
        ELSE sel_best = <<MinPrice, SelBatch[FirstAtMin]>>

\* C9 witness: a call on three offers where two different qualifying offers
\* share the minimum price and a cheaper offer was filtered out.
C9_Witness ==
    /\ sel_done
    /\ Len(SelBatch) = 3
    /\ \E i, j \in Qualifying :
          /\ i < j
          /\ PriceAt(i) = MinPrice
          /\ PriceAt(j) = MinPrice
          /\ SelBatch[i] # SelBatch[j]
    /\ \E k \in 1..Len(SelBatch) :
          /\ ~sel_match[k]
          /\ price_field(SelBatch[k]).tag = "num"
          /\ price_field(SelBatch[k]).val < MinPrice

\* the departure timestamp the offer carries for leg k (NoneTs when the
\* offer has no such leg, no segment in it, or no such key)
LegDeparture(o, k) ==
    IF Len(o.itineraries) >= k /\ o.itineraries[k].segments # <<>>
    THEN IF o.itineraries[k].segments[1].dep.tag = "absent" THEN NoneTs
         ELSE o.itineraries[k].segments[1].dep
    ELSE NoneTs
\* a leg's window excludes: both bounds configured, hour parseable, outside
WindowExcludes(from, to, ts) ==
    /\ from # None
    /\ to # None
    /\ ts.tag = "iso"
    /\ ~(from <= ts.hour /\ ts.hour <= to)

\* C10: offer_matches_time_windows rejects an offer exactly when the window
\* of the outbound or of the inbound leg excludes that leg's departure hour,
\* each leg judged on its own timestamp.
C10_RejectsIffALegIsExcluded ==
    sel_done =>
        \A j \in 1..Len(SelBatch) :
            sel_match[j] =
                ~(\/ WindowExcludes(DEP_WINDOW_FROM, DEP_WINDOW_TO,
                                    LegDeparture(SelBatch[j], 1))
                  \/ WindowExcludes(RET_WINDOW_FROM, RET_WINDOW_TO,
                                    LegDeparture(SelBatch[j], 2)))

(***************************************************************************)
(* Properties of the History Store.                                        *)
(***************************************************************************)
\* C11 (under Spec): every observation in the History Store has price > 0,
\* whatever offers the provider returns.
C11_PricesPositive ==
    \A i \in 1..Len(history) : history[i].price > 0

\* the prices of the offers the selector can return under the configured
\* windows
SelectablePrices ==
    {price_field(o).val : o \in {m \in MainOffers : offer_matches_time_windows(m)}}

\* C12 (under SpecJobs): every step leaves the History Store unchanged or
\* appends one record at its end; the appending step is the add_history of a
\* poll cycle whose selector returned an offer; the steps of the
\* summary job and of the /history, /help and other-text commands leave it
\* unchanged.
C12_AppendOnly ==
    [][ /\ \/ history' = history
           \/ /\ history' # <<>>
              /\ SubSeq(history', 1, Len(history' ) - 1) = history
              /\ \E c \in Cycles :
                    /\ cyc[c].pc = "add"
                    /\ cyc[c].price \in SelectablePrices
                    /\ cyc'[c].pc = "send"
                    /\ cyc'[c].obs = Len(history')
                    /\ history'[Len(history')].price = cyc[c].price
        /\ sum' # sum => history' = history
        /\ (handled' # handled /\ lpc' = "handled") => history' = history
      ]_vars

\* C12 witness: the store holds two records, the summary job has sent its
\* message and the listener has answered a /history command.
C12_Witness ==
    /\ Len(history) = 2
    /\ sum.pc = "ret"
    /\ sum.msgs # <<>>
    /\ reply = "history"

\* C13 (under SpecJobs): the number of records equals the number of
\* add_history calls that committed; each cycle that has appended finds its
\* own record, whole, at the position it was given, two cycles never share a
\* position, and the row a summary read returned is a record of the store.
C13_AppendsAreAtomic ==
    /\ Len(history) = commits
    /\ \A c \in Cycles :
          cyc[c].obs # 0 =>
              /\ cyc[c].obs \in 1..Len(history)
              /\ history[cyc[c].obs].price = cyc[c].price
    /\ (cyc["sched"].obs # 0 /\ cyc["cmd"].obs # 0) =>
          cyc["sched"].obs # cyc["cmd"].obs
    /\ sum.row # <<>> => \E i \in 1..Len(history) : history[i] = sum.row[1]

\* C13 witness: the cycle of an immediate-check command and the timer's
\* cycle have both appended, at different prices, while the summary job
\* holds the row it read between the two appends.
C13_Witness ==
    /\ cyc["cmd"].obs = 1
    /\ cyc["sched"].obs = 2
    /\ cyc["cmd"].price # cyc["sched"].price
    /\ cyc["cmd"].pc = "send"
    /\ cyc["sched"].pc = "send"
    /\ sum.pc = "send"
    /\ sum.row = <<history[1]>>

(***************************************************************************)
(* Properties of top_n_history (under SpecTopN).                           *)
(***************************************************************************)
\* the position in the store of a record (records differ in timestamp)
Pos(r) == CHOOSE i \in 1..Len(history) : history[i] = r
\* record a comes before record b in the command's order: cheaper, or of
\* the same price and inserted earlier
Before(a, b) ==
    \/ a.price < b.price
    \/ a.price = b.price /\ Pos(a) < Pos(b)

Today == (now + TZ_OFFSET) \div 24
LocalDay(r) == (r.timestamp.local - r.timestamp.off + TZ_OFFSET) \div 24
TodaysRows == {i \in 1..Len(history) : LocalDay(history[i]) = Today}
MinToday == CHOOSE m \in {history[i].price : i \in TodaysRows} :
                \A i \in TodaysRows : m <= history[i].price
\* the step in which the job reads the store
SummaryReads == sum.pc = "idle" /\ sum'.pc = "send"

\* C15: when the job runs and the store holds an observation of the current
\* local date, the row it reports is of the current local date and has the
\* least price among the observations of that date; an observation of
\* another local date is never reported.
C15_ReportsTodaysMinimum ==
    [][SummaryReads =>
          /\ sum'.row # <<>> => LocalDay(sum'.row[1]) = Today
          /\ TodaysRows # {} =>
                /\ sum'.row # <<>>
                /\ sum'.row[1].price = MinToday]_vars

\* C16: an invocation of the job never makes more than one call of the
\* dispatcher and has made exactly one when it returns; when the store is
\* empty or holds no observation of the current local date the message is
\* "no prices recorded today".
C16_OneMessagePerRun ==
    /\ [](/\ Len(sum.msgs) <= 1
          /\ sum.pc = "ret" =>
                /\ Len(sum.msgs) = 1
                /\ sum.row = <<>> => sum.msgs[1] = SumMsg("noprices", 0))
    /\ [][(SummaryReads /\ TodaysRows = {}) => sum'.row = <<>>]_vars

(***************************************************************************)
(* Further properties of the command listener.                             *)
(***************************************************************************)
\* the step in which handle_update is called on the head of the batch
HandleStep == handled' # handled

\* C17 (under SpecBacklog): for an update whose chat identifier differs
\* from the configured recipient identifier, whatever its text,
\* handle_update sends no message (it calls the dispatcher with none, or
\* the dispatcher has no recipient to send to), starts no poll cycle,
\* leaves the History Store unchanged and returns, and the listener then
\* persists that update's identifier + 1.
C17_UnauthorizedIgnored ==
    [][ /\ (HandleStep /\ Head(batch).chat_id # TELEGRAM_CHAT_ID) =>
              /\ reply' = "" \/ TRUE \notin SendResults
              /\ cyc' = cyc
              /\ history' = history
              /\ lpc' = "handled"
        /\ (lpc = "write" /\ lpc' = "drain"
               /\ Head(batch).chat_id # TELEGRAM_CHAT_ID) =>
              Cursor' = Head(batch).update_id + 1 ]_vars

\* C18 (under SpecLive): every update the channel has made available is
\* eventually passed to handle_update with the persisted cursor past its
\* identifier, whatever failed fetches, failed sends, handler exceptions
\* and crashes happen on the way.
C18_EveryUpdateIsEventuallyHandled ==
    \A i \in 1..MaxUpdates :
        (i \in Arrived) ~> (handled[i] >= 1 /\ Cursor # None /\ Cursor > i)

\* C18 witness: after a failure that made the listener handle the first
\* update twice, both updates are handled and the cursor is past them.
C18_Witness ==
    /\ faults > 0
    /\ handled[1] = 2
    /\ handled[2] >= 1
    /\ Cursor = 3

\* C19 (under Spec): the cycle of an immediate-check command starts in
\* the handle_update call of an authorized "/start" and in no other step;
\* while it runs the listener is inside that call, handles no other update
\* and leaves the cursor file alone, the cursor not being past the update;
\* the call returns only when the cycle has ended; and when the cycle
\* raises the listener goes to sleep with its offset and the cursor file
\* unchanged.
C19_CommandCycleIsSynchronous ==
    /\ [](cyc["cmd"].pc # "idle" =>
             /\ lpc = "cycle"
             /\ batch # <<>>
             /\ Head(batch).text = "/start"
             /\ Cursor = None \/ Cursor <= Head(batch).update_id)
    /\ [][ /\ (cyc["cmd"].pc = "idle" /\ cyc'["cmd"].pc # "idle") =>
                  (HandleStep /\ lpc' = "cycle" /\ cyc'["cmd"] = StartCycle)
           /\ lpc = "cycle" =>
                  (offsetFile' = offsetFile /\ handled' = handled)
           /\ (lpc = "cycle" /\ lpc' = "handled") =>
                  (cyc["cmd"].pc = "ret" /\ cyc'["cmd"] = IdleCycle
                     /\ batch' = batch)
           /\ (lpc = "cycle" /\ lpc' = "sleep") =>
                  (lres' = "handler_exc" /\ offset' = offset
                     /\ cyc'["cmd"] = IdleCycle) ]_vars

\* C19 witness: the second update of the channel was an immediate-check
\* command whose cycle raised; the cursor is still that update's
\* identifier.
C19_Witness ==
    /\ lpc = "sleep"
    /\ lres = "handler_exc"
    /\ handled[2] = 1
    /\ 2 \notin returned
    /\ Cursor = 2
    /\ offset = 2

\* C20 (under SpecBacklog): no value save_offset writes is less than a
\* value it wrote before, and the cursor file changes only in the
\* listener's save_offset.
C20_CursorNeverDecreases ==
    [][ /\ (offsetFile' # offsetFile /\ Cursor' # None) => Cursor' >= maxWritten
        /\ offsetFile' # offsetFile =>
              \/ lpc = "handled" /\ lpc' = "write"
              \/ lpc = "write" /\ lpc' = "drain" ]_vars

====
